---- MODULE Spec2Model ----
(***************************************************************************)
(* Experiment control plane of polyaxon: the request handlers of           *)
(* api/experiments/views.py over the status ledgers, the audit log, the    *)
(* task queue, the ephemeral scope store and the durable token table.      *)
(* Every action is one request handled from its first line to its          *)
(* response; requests of different callers interleave at that grain.       *)
(***************************************************************************)
EXTENDS Integers, Sequences, FiniteSets, TLC

VARIABLES
    experiments,          \* Experiment table: id -> record
    jobs,                 \* ExperimentJob table: id -> [experiment]
    experiment_statuses,  \* ExperimentStatus rows of each experiment, in insertion order
    experiment_status,    \* Experiment.status: id of the latest row, 0 when none
    job_statuses,         \* ExperimentJobStatus rows of each job, in insertion order
    job_status,           \* ExperimentJob.status: id of the latest row, 0 when none
    now,                  \* the clock created_at is read from
    events,               \* the audit log, oldest first
    queue,                \* tasks handed to celery, oldest first
    ephemeral_tokens,     \* RedisEphemeralTokens: the grants issued, oldest first
    tokens,               \* rest_framework Token table
    experiment_metrics,   \* ExperimentMetric rows, in insertion order
    ttls,                 \* RedisTTL: experiment id -> ttl stored for it
    recorder_up,          \* whether the audit log takes what the recorder hands it
    nreq,                 \* number of requests handled so far
    resp                  \* the request handled last and its response

vars == <<experiments, jobs, experiment_statuses, experiment_status, job_statuses,
          job_status, now, events, queue, ephemeral_tokens, tokens,
          experiment_metrics, ttls, recorder_up, nreq, resp>>

----------------------------------------------------------------------------
(* Bounds of the model *)

MaxReq == 3
MaxClock == 2
MaxGrants == 2
MaxScopeLen == 2

----------------------------------------------------------------------------
(* Values *)

None == "None"

\* Capability tags are 1 and 2; <<0>> stands for Python's None where a scope
\* list is expected (request.user.scope of a caller without one)
Tags == {1, 2}
NoScope == <<0>>
ScopeLists == UNION {[1..n -> Tags] : n \in 0..MaxScopeLen}

SCHEDULED == "scheduled"
STARTING == "starting"
RUNNING == "running"
SUCCEEDED == "succeeded"
FAILED == "failed"
STOPPED == "stopped"

\* constants.experiments.ExperimentLifeCycle, the values the handlers and the
\* ledger policy tell apart
LiveStatuses == {SCHEDULED, STARTING, RUNNING}
TerminalStatuses == {SUCCEEDED, FAILED, STOPPED}
Statuses == LiveStatuses \cup TerminalStatuses

Messages == {"", "msg"}

Users == {1, 2}

HTTP_200_OK == "HTTP_200_OK"
HTTP_201_CREATED == "HTTP_201_CREATED"
HTTP_403_FORBIDDEN == "HTTP_403_FORBIDDEN"
HTTP_404_NOT_FOUND == "HTTP_404_NOT_FOUND"
TerminalStateViolation == "TerminalStateViolation"
EnqueueError == "EnqueueError"
ValidationError == "ValidationError"
AuditError == "AuditError"

Last(s) == s[Len(s)]

RECURSIVE SumOver(_, _)
SumOver(f, S) ==
    IF S = {} THEN 0
    ELSE LET x == CHOOSE y \in S : TRUE IN Len(f[x]) + SumOver(f, S \ {x})

----------------------------------------------------------------------------
(* The request handled last: what it was given and what it answered *)

Response(op, code) ==
    [op |-> op, id |-> nreq + 1, code |-> code, actor |-> 0, experiment |-> 0,
     job |-> 0, status |-> None, before |-> None, data |-> <<>>,
     scope |-> NoScope, stored |-> NoScope, token |-> 0, created |-> FALSE,
     body |-> <<>>, derived |-> 0, path |-> <<>>]

----------------------------------------------------------------------------
(* Event registry and recorder *)

EXPERIMENT_CREATED == "experiment.created"
EXPERIMENT_UPDATED == "experiment.updated"
EXPERIMENT_DELETED_TRIGGERED == "experiment.deleted_triggered"
EXPERIMENT_VIEWED == "experiment.viewed"
EXPERIMENT_STOPPED_TRIGGERED == "experiment.stopped_triggered"
EXPERIMENT_RESUMED_TRIGGERED == "experiment.resumed_triggered"
EXPERIMENT_RESTARTED_TRIGGERED == "experiment.restarted_triggered"
EXPERIMENT_COPIED_TRIGGERED == "experiment.copied_triggered"
EXPERIMENT_RESOURCES_VIEWED == "experiment.resources_viewed"
EXPERIMENT_LOGS_VIEWED == "experiment.logs_viewed"
EXPERIMENT_STATUSES_VIEWED == "experiment.statuses_viewed"
EXPERIMENT_JOBS_VIEWED == "experiment.jobs_viewed"
EXPERIMENT_METRICS_VIEWED == "experiment.metrics_viewed"
EXPERIMENT_JOB_STATUSES_VIEWED == "experiment_job.statuses_viewed"
EXPERIMENT_GROUP_EXPERIMENTS_VIEWED == "experiment_group.experiments_viewed"
PROJECT_EXPERIMENTS_VIEWED == "project.experiments_viewed"

\* activitylogs.subscribe(...) calls of activitylogs/events/experiment.py
ExperimentSubscriptions ==
    {EXPERIMENT_CREATED, EXPERIMENT_UPDATED, EXPERIMENT_DELETED_TRIGGERED,
     EXPERIMENT_VIEWED, EXPERIMENT_STOPPED_TRIGGERED, EXPERIMENT_RESUMED_TRIGGERED,
     EXPERIMENT_RESTARTED_TRIGGERED, EXPERIMENT_COPIED_TRIGGERED,
     EXPERIMENT_RESOURCES_VIEWED, EXPERIMENT_LOGS_VIEWED, EXPERIMENT_STATUSES_VIEWED,
     EXPERIMENT_JOBS_VIEWED, EXPERIMENT_METRICS_VIEWED}

\* subscriptions made by the modules of the other entities
OtherSubscriptions ==
    {EXPERIMENT_JOB_STATUSES_VIEWED, EXPERIMENT_GROUP_EXPERIMENTS_VIEWED,
     PROJECT_EXPERIMENTS_VIEWED}

Subscribed == ExperimentSubscriptions \cup OtherSubscriptions

\* A recorder that raises to its caller when the log does not take the event
auditor_raises_when_down(event_type) == ~recorder_up

\* Whether auditor.record(event_type, ...) raises to its caller: never, a
\* failure to record is logged and swallowed by the recorder
auditor_raises(event_type) == FALSE

\* auditor.record(event_type, instance, actor_id, actor_name) called when the
\* log is `log`: the log after the call; an event type nobody subscribed, or
\* a log that does not take the event, leaves the log as it is
auditor_record_onto(log, event_type, instance, actor_id) ==
    IF event_type \in Subscribed /\ recorder_up
    THEN Append(log, [type |-> event_type, instance |-> instance,
                      actor_id |-> actor_id, request |-> nreq + 1])
    ELSE log

\* The first auditor.record call of a request
auditor_record(event_type, instance, actor_id) ==
    auditor_record_onto(events, event_type, instance, actor_id)

----------------------------------------------------------------------------
(* Lifecycle ledger *)

\* LastStatusMixin.last_status: the status of the row the entity points at
last_status(rows, pointer) ==
    IF pointer = 0 THEN None
    ELSE LET i == CHOOSE k \in 1..Len(rows) : rows[k].id = pointer IN rows[i].status

\* A policy that lets a terminal entity go back to a status that is not terminal
can_transition_between_terminals_only(current, status) ==
    ~(current \in TerminalStatuses /\ status \in TerminalStatuses /\ status # current)

\* A policy that closes a terminal entity to every append
can_transition_never_after_terminal(current, status) ==
    current \notin TerminalStatuses

\* The legal-transition policy of an append: a terminal entity takes only the
\* terminal status it already has
can_transition(current, status) ==
    ~(current \in TerminalStatuses /\ status # current)

\* The status serializers' is_valid, run by create before perform_create: the
\* status is one of the lifecycle's values
is_valid_status(status) == status \in Statuses

\* The row an append inserts: created_at is read from the clock at insert
new_row(id, status, message) ==
    [id |-> id, status |-> status, message |-> message, created_at |-> now]

\* QuerySet.order_by('created_at'): every order of the rows the database may
\* answer with, which is any order that is ascending in created_at (rows with
\* equal created_at come in no particular order)
order_by_created_at(rows) ==
    LET n == Len(rows)
        orders == {p \in [1..n -> 1..n] :
                     /\ \A i, j \in 1..n : i # j => p[i] # p[j]
                     /\ \A i \in 1..(n - 1) :
                          rows[p[i]].created_at <= rows[p[i + 1]].created_at}
    IN {[i \in 1..n |-> rows[p[i]]] : p \in orders}

next_experiment_status_id == SumOver(experiment_statuses, DOMAIN experiment_statuses) + 1
next_job_status_id == SumOver(job_statuses, DOMAIN job_statuses) + 1

\* ExperimentViewMixin.get_experiment / ExperimentJobViewMixin.get_experiment
has_experiment(experiment_id) == experiment_id \in DOMAIN experiments

\* A lookup of the job by its id alone, whatever experiment the request names
has_job_of_any_experiment(experiment_id, job_id) ==
    /\ has_experiment(experiment_id)
    /\ job_id \in DOMAIN jobs

\* ExperimentJobViewMixin.get_job
has_job(experiment_id, job_id) ==
    /\ has_experiment(experiment_id)
    /\ job_id \in DOMAIN jobs
    /\ jobs[job_id].experiment = experiment_id

\* Experiment.last_status and ExperimentJob.last_status
experiment_last_status(experiment_id) ==
    last_status(experiment_statuses[experiment_id], experiment_status[experiment_id])
job_last_status(job_id) == last_status(job_statuses[job_id], job_status[job_id])

ledger_vars == <<experiment_statuses, experiment_status, job_statuses, job_status>>
store_vars == <<experiment_metrics, ttls, recorder_up>>
other_vars == <<experiments, jobs, queue, ephemeral_tokens, tokens, store_vars>>

\* POST .../experiments/<experiment_id>/statuses
ExperimentStatusListView_post(actor, experiment_id, status, message) ==
    /\ nreq < MaxReq
    /\ nreq' = nreq + 1
    /\ UNCHANGED <<other_vars, job_statuses, job_status, now, events>>
    /\ IF ~is_valid_status(status) \/ ~has_experiment(experiment_id)
       THEN /\ resp' = [Response("experiment_status_create",
                                 IF ~is_valid_status(status) THEN ValidationError
                                 ELSE HTTP_404_NOT_FOUND)
                         EXCEPT !.actor = actor, !.status = status,
                                !.path = <<experiment_id>>]
            /\ UNCHANGED <<experiment_statuses, experiment_status>>
       ELSE LET current == last_status(experiment_statuses[experiment_id],
                                       experiment_status[experiment_id])
                row == new_row(next_experiment_status_id, status, message)
                request == [Response("experiment_status_create", HTTP_201_CREATED)
                            EXCEPT !.actor = actor, !.experiment = experiment_id,
                                   !.status = status, !.before = current,
                                   !.path = <<experiment_id>>]
            IN IF ~can_transition(current, status)
               THEN /\ resp' = [request EXCEPT !.code = TerminalStateViolation]
                    /\ UNCHANGED <<experiment_statuses, experiment_status>>
               ELSE /\ experiment_statuses' =
                         [experiment_statuses EXCEPT ![experiment_id] = Append(@, row)]
                    /\ experiment_status' =
                         [experiment_status EXCEPT ![experiment_id] = row.id]
                    /\ resp' = [request EXCEPT !.data = <<row>>]

\* GET .../experiments/<experiment_id>/statuses
ExperimentStatusListView_get(actor, experiment_id) ==
    /\ nreq < MaxReq
    /\ nreq' = nreq + 1
    /\ UNCHANGED <<other_vars, ledger_vars, now>>
    /\ IF ~has_experiment(experiment_id)
       THEN /\ resp' = [Response("experiment_status_list", HTTP_404_NOT_FOUND)
                         EXCEPT !.actor = actor, !.path = <<experiment_id>>]
            /\ UNCHANGED events
       ELSE /\ \E listing \in order_by_created_at(experiment_statuses[experiment_id]) :
                 resp' = [Response("experiment_status_list", HTTP_200_OK)
                          EXCEPT !.actor = actor, !.experiment = experiment_id,
                                 !.data = listing, !.path = <<experiment_id>>]
            /\ events' = auditor_record(EXPERIMENT_STATUSES_VIEWED, experiment_id, actor)

\* get_object of the status detail views: the row of `rows` with this uuid
find_row(rows, uuid) == {k \in 1..Len(rows) : rows[k].id = uuid}

\* A job status handler that also writes the new status into the ledger of
\* the parent experiment
ExperimentJobStatusListView_post_to_parent(actor, experiment_id, job_id, status, message) ==
    /\ nreq < MaxReq
    /\ nreq' = nreq + 1
    /\ UNCHANGED <<other_vars, now, events>>
    /\ IF ~is_valid_status(status) \/ ~has_job(experiment_id, job_id)
       THEN /\ resp' = [Response("job_status_create",
                                 IF ~is_valid_status(status) THEN ValidationError
                                 ELSE HTTP_404_NOT_FOUND)
                         EXCEPT !.actor = actor, !.status = status,
                                !.path = <<experiment_id, job_id>>]
            /\ UNCHANGED ledger_vars
       ELSE LET current == last_status(job_statuses[job_id], job_status[job_id])
                row == new_row(next_job_status_id, status, message)
                parent_row == new_row(next_experiment_status_id, status, message)
                request == [Response("job_status_create", HTTP_201_CREATED)
                            EXCEPT !.actor = actor, !.experiment = experiment_id,
                                   !.job = job_id, !.status = status,
                                   !.before = current,
                                   !.path = <<experiment_id, job_id>>]
            IN IF ~can_transition(current, status)
               THEN /\ resp' = [request EXCEPT !.code = TerminalStateViolation]
                    /\ UNCHANGED ledger_vars
               ELSE /\ job_statuses' = [job_statuses EXCEPT ![job_id] = Append(@, row)]
                    /\ job_status' = [job_status EXCEPT ![job_id] = row.id]
                    /\ experiment_statuses' =
                         [experiment_statuses EXCEPT ![experiment_id] = Append(@, parent_row)]
                    /\ experiment_status' =
                         [experiment_status EXCEPT ![experiment_id] = parent_row.id]
                    /\ resp' = [request EXCEPT !.data = <<row>>]

\* POST .../experiments/<experiment_id>/jobs/<id>/statuses
ExperimentJobStatusListView_post(actor, experiment_id, job_id, status, message) ==
    /\ nreq < MaxReq
    /\ nreq' = nreq + 1
    /\ UNCHANGED <<other_vars, experiment_statuses, experiment_status, now, events>>
    /\ IF ~is_valid_status(status) \/ ~has_job(experiment_id, job_id)
       THEN /\ resp' = [Response("job_status_create",
                                 IF ~is_valid_status(status) THEN ValidationError
                                 ELSE HTTP_404_NOT_FOUND)
                         EXCEPT !.actor = actor, !.status = status,
                                !.path = <<experiment_id, job_id>>]
            /\ UNCHANGED <<job_statuses, job_status>>
       ELSE LET current == last_status(job_statuses[job_id], job_status[job_id])
                row == new_row(next_job_status_id, status, message)
                request == [Response("job_status_create", HTTP_201_CREATED)
                            EXCEPT !.actor = actor, !.experiment = experiment_id,
                                   !.job = job_id, !.status = status,
                                   !.before = current,
                                   !.path = <<experiment_id, job_id>>]
            IN IF ~can_transition(current, status)
               THEN /\ resp' = [request EXCEPT !.code = TerminalStateViolation]
                    /\ UNCHANGED <<job_statuses, job_status>>
               ELSE /\ job_statuses' = [job_statuses EXCEPT ![job_id] = Append(@, row)]
                    /\ job_status' = [job_status EXCEPT ![job_id] = row.id]
                    /\ resp' = [request EXCEPT !.data = <<row>>]

\* GET .../experiments/<experiment_id>/jobs/<id>/statuses
ExperimentJobStatusListView_get(actor, experiment_id, job_id) ==
    /\ nreq < MaxReq
    /\ nreq' = nreq + 1
    /\ UNCHANGED <<other_vars, ledger_vars, now>>
    /\ IF ~has_job(experiment_id, job_id)
       THEN /\ resp' = [Response("job_status_list", HTTP_404_NOT_FOUND)
                         EXCEPT !.actor = actor, !.path = <<experiment_id, job_id>>]
            /\ UNCHANGED events
       ELSE /\ \E listing \in order_by_created_at(job_statuses[job_id]) :
                 resp' = [Response("job_status_list", HTTP_200_OK)
                          EXCEPT !.actor = actor, !.experiment = experiment_id,
                                 !.job = job_id, !.data = listing,
                                 !.path = <<experiment_id, job_id>>]
            /\ events' = auditor_record(EXPERIMENT_JOB_STATUSES_VIEWED, job_id, actor)

\* PUT/PATCH .../experiments/<experiment_id>/jobs/<id>/statuses/<uuid>: the
\* update of RetrieveUpdateAPIView writes the submitted fields into the row
ExperimentJobStatusDetailView_patch(actor, experiment_id, job_id, uuid, status, message) ==
    /\ nreq < MaxReq
    /\ nreq' = nreq + 1
    /\ UNCHANGED <<other_vars, experiment_statuses, experiment_status, job_status,
                   now, events>>
    /\ IF ~has_job(experiment_id, job_id) \/ find_row(job_statuses[job_id], uuid) = {}
       THEN /\ resp' = [Response("job_status_update", HTTP_404_NOT_FOUND)
                         EXCEPT !.actor = actor, !.status = status]
            /\ UNCHANGED job_statuses
       ELSE LET k == CHOOSE i \in find_row(job_statuses[job_id], uuid) : TRUE
                row == [job_statuses[job_id][k] EXCEPT !.status = status,
                                                       !.message = message]
            IN /\ job_statuses' = [job_statuses EXCEPT ![job_id][k] = row]
               /\ resp' = [Response("job_status_update", HTTP_200_OK)
                           EXCEPT !.actor = actor, !.experiment = experiment_id,
                                  !.job = job_id, !.status = status, !.data = <<row>>]

\* Time passes between two requests
Tick ==
    /\ now < MaxClock
    /\ now' = now + 1
    /\ UNCHANGED <<other_vars, ledger_vars, events, nreq, resp>>

----------------------------------------------------------------------------
(* Ephemeral scoped authorizer *)

\* Issue of an ephemeral token for (user, 'experiment', object_id) with a scope:
\* the scope stored for the key is from now on the one of this grant
grant_scope(user, object_id, scope) ==
    /\ Len(ephemeral_tokens) < MaxGrants
    /\ ephemeral_tokens' = Append(ephemeral_tokens,
                                  [user |-> user, object_id |-> object_id, scope |-> scope])
    /\ resp' = [Response("grant_scope", HTTP_200_OK)
                EXCEPT !.id = nreq, !.actor = user, !.experiment = object_id,
                       !.scope = scope]
    /\ UNCHANGED <<experiments, jobs, ledger_vars, now, events, queue, tokens,
                   store_vars, nreq>>

\* The grants issued for a key, by their place in the log
grants_of(user, object_id) ==
    {k \in 1..Len(ephemeral_tokens) :
        ephemeral_tokens[k].user = user /\ ephemeral_tokens[k].object_id = object_id}

Max(S) == CHOOSE x \in S : \A y \in S : y <= x

\* RedisEphemeralTokens.get_scope(user, model='experiment', object_id): the scope
\* of the latest grant of the key, read back as the empty list when there is none
get_scope(user, object_id) ==
    IF grants_of(user, object_id) = {} THEN <<>>
    ELSE ephemeral_tokens[Max(grants_of(user, object_id))].scope

RECURSIVE insert(_, _)
insert(x, s) ==
    IF s = <<>> THEN <<x>>
    ELSE IF x <= Head(s) THEN <<x>> \o s
    ELSE <<Head(s)>> \o insert(x, Tail(s))

\* A sort that drops the tags it has already seen
RECURSIVE sorted_unique(_)
sorted_unique(s) ==
    IF s = <<>> THEN <<>>
    ELSE LET rest == sorted_unique(Tail(s))
         IN IF \E k \in 1..Len(rest) : rest[k] = Head(s) THEN rest
            ELSE insert(Head(s), rest)

\* Python's sorted(list): the same elements, each as often as in the list,
\* in ascending order
RECURSIVE sorted(_)
sorted(s) == IF s = <<>> THEN <<>> ELSE insert(Head(s), sorted(Tail(s)))

\* An exchange that does not compare the scopes
scope_matches_anything(presented, stored) == TRUE

\* sorted(user.scope) != sorted(scope), negated: the comparison that lets the
\* exchange go on
scope_matches(presented, stored) == sorted(presented) = sorted(stored)

\* A live check that also lets a succeeded experiment through
is_live_or_succeeded(status) == status \in LiveStatuses \cup {SUCCEEDED}

\* experiment.last_status in [SCHEDULED, STARTING, RUNNING]
is_live(status) == status \in {SCHEDULED, STARTING, RUNNING}

\* A token table that takes a new row on every call
always_create(user) ==
    tokens \cup {[user |-> user, key |-> Cardinality(tokens) + 1]}

\* Token.objects.get_or_create(user=...): the table after the call
get_or_create(user) ==
    IF \E t \in tokens : t.user = user THEN tokens
    ELSE tokens \cup {[user |-> user, key |-> Cardinality(tokens) + 1]}

\* POST .../experiments/<id>/token by a caller authenticated with an ephemeral
\* token whose scope is `scope` (NoScope when request.user.scope is None)
ExperimentScopeTokenView_post(scope, id) ==
    /\ nreq < MaxReq
    /\ nreq' = nreq + 1
    /\ UNCHANGED <<experiments, jobs, ledger_vars, now, events, queue,
                   ephemeral_tokens, store_vars>>
    /\ LET request == [Response("scope_token", HTTP_403_FORBIDDEN)
                       EXCEPT !.experiment = id, !.scope = scope]
       IN IF scope = NoScope
          THEN resp' = request /\ UNCHANGED tokens
          ELSE IF ~has_experiment(id)
          THEN resp' = [request EXCEPT !.code = HTTP_404_NOT_FOUND] /\ UNCHANGED tokens
          ELSE IF ~is_live(experiment_last_status(id))
          THEN resp' = [request EXCEPT !.before = experiment_last_status(id)]
               /\ UNCHANGED tokens
          ELSE LET stored == get_scope(experiments[id].user, id)
                   checked == [request EXCEPT !.before = experiment_last_status(id),
                                              !.stored = stored]
               IN IF ~scope_matches(scope, stored)
                  THEN resp' = checked /\ UNCHANGED tokens
                  ELSE /\ tokens' = get_or_create(experiments[id].user)
                       /\ LET token == CHOOSE t \in tokens' :
                                           t.user = experiments[id].user
                          IN resp' = [checked EXCEPT !.code = HTTP_200_OK,
                                                     !.actor = token.user,
                                                     !.token = token.key,
                                                     !.created = (tokens' # tokens)]

----------------------------------------------------------------------------
(* Command dispatcher *)

EXPERIMENTS_STOP == "experiments.stop"

\* The Project and ExperimentGroup rows the experiments refer to
Projects == (1 :> [user |-> 1, name |-> "project", uuid |-> <<"uuid", "project", 1>>])
ExperimentGroups == (1 :> [project |-> 1, uuid |-> <<"uuid", "group", 1>>])

\* Project.unique_name: PROJECT_UNIQUE_NAME_FORMAT filled with the owner's name
\* and the project's name
project_unique_name(project_id) ==
    <<Projects[project_id].user, Projects[project_id].name>>

\* Experiment.unique_name and ExperimentGroup.unique_name: composed from the
\* owner, the project and the row's sequence number
experiment_unique_name(id) ==
    project_unique_name(experiments[id].project) \o <<id>>
group_unique_name(group_id) ==
    project_unique_name(ExperimentGroups[group_id].project) \o <<"group", group_id>>

\* A payload builder that names the group but leaves its uuid out
stop_kwargs_without_group_uuid(id) ==
    LET obj == experiments[id]
        group == obj.experiment_group
    IN [project_name |-> project_unique_name(obj.project),
        project_uuid |-> Projects[obj.project].uuid,
        experiment_name |-> experiment_unique_name(id),
        experiment_uuid |-> <<"uuid", "experiment", id>>,
        experiment_group_name |-> IF group # 0 THEN group_unique_name(group) ELSE <<>>,
        experiment_group_uuid |-> <<>>,
        specification |-> obj.config,
        update_status |-> TRUE]

\* The keyword arguments of the stop task sent for experiment `id`
stop_kwargs(id) ==
    LET obj == experiments[id]
        group == obj.experiment_group
    IN [project_name |-> project_unique_name(obj.project),
        project_uuid |-> Projects[obj.project].uuid,
        experiment_name |-> experiment_unique_name(id),
        experiment_uuid |-> <<"uuid", "experiment", id>>,
        experiment_group_name |-> IF group # 0 THEN group_unique_name(group) ELSE <<>>,
        experiment_group_uuid |-> IF group # 0 THEN ExperimentGroups[group].uuid ELSE <<>>,
        specification |-> obj.config,
        update_status |-> TRUE]

\* celery_app.send_task(name, kwargs): the queue after the call
send_task(name, kwargs, actor) ==
    Append(queue, [task |-> name, kwargs |-> kwargs,
                   request |-> [id |-> nreq + 1, actor |-> actor]])

\* A stop handler that records the event in the name of the experiment's owner
ExperimentStopView_record_as_owner(actor, id) ==
    auditor_record(EXPERIMENT_STOPPED_TRIGGERED, id, experiments[id].user)

\* The auditor.record call of the stop handler
ExperimentStopView_record(actor, id) ==
    auditor_record(EXPERIMENT_STOPPED_TRIGGERED, id, actor)

\* A handler that answers as if the task was sent whatever the broker did
after_send_task_swallowed(enqueued, success) == success

\* What the handler answers after celery_app.send_task: the response that
\* follows the call when the broker took the task, the broker's error otherwise
\* (nothing catches it)
after_send_task(enqueued, success) == IF enqueued THEN success ELSE EnqueueError

\* POST .../experiments/<id>/stop; `enqueued` is whether the broker takes the task
ExperimentStopView_post(actor, id, enqueued) ==
    /\ nreq < MaxReq
    /\ nreq' = nreq + 1
    /\ UNCHANGED <<experiments, jobs, ledger_vars, now, ephemeral_tokens, tokens,
                   store_vars>>
    /\ IF ~has_experiment(id)
       THEN /\ resp' = [Response("stop", HTTP_404_NOT_FOUND) EXCEPT !.actor = actor]
            /\ UNCHANGED <<events, queue>>
       ELSE LET raised == auditor_raises(EXPERIMENT_STOPPED_TRIGGERED)
            IN /\ events' = ExperimentStopView_record(actor, id)
               /\ queue' = IF ~raised /\ enqueued
                           THEN send_task(EXPERIMENTS_STOP, stop_kwargs(id), actor)
                           ELSE queue
               /\ resp' = [Response("stop", IF raised THEN AuditError
                                            ELSE after_send_task(enqueued, HTTP_200_OK))
                           EXCEPT !.actor = actor, !.experiment = id,
                                  !.body = [enqueued |-> enqueued]]

----------------------------------------------------------------------------
(* Metrics *)

EXPERIMENTS_SET_METRICS == "experiments.set_metrics"

\* Metric records a caller can send; "junk" is an object the serializer refuses
MetricRecords == {"m1", "m2"}
MetricPayloads ==
    {[many |-> TRUE, records |-> <<>>],
     [many |-> TRUE, records |-> <<"m1">>],
     [many |-> TRUE, records |-> <<"m1", "m2", "m1">>],
     [many |-> FALSE, records |-> <<"m1">>],
     [many |-> FALSE, records |-> <<"junk">>]}

\* ExperimentMetricSerializer.is_valid
is_valid_metric(record) == record \in MetricRecords

\* A handler that takes a list of one record for a single object
is_list_of_many(data) == data.many /\ Len(data.records) # 1

\* isinstance(request.data, list)
is_list(data) == data.many

\* POST .../experiments/<id>/metrics
ExperimentMetricListView_create(actor, experiment_id, data, enqueued) ==
    /\ nreq < MaxReq
    /\ nreq' = nreq + 1
    /\ UNCHANGED <<experiments, jobs, ledger_vars, now, events, ephemeral_tokens,
                   tokens, ttls, recorder_up>>
    /\ LET request == [Response("metrics_create", HTTP_201_CREATED)
                       EXCEPT !.actor = actor, !.body = data,
                              !.path = <<experiment_id>>]
       IN IF is_list(data)
          THEN /\ UNCHANGED experiment_metrics
               /\ IF ~has_experiment(experiment_id)
                  THEN /\ resp' = [request EXCEPT !.code = HTTP_404_NOT_FOUND]
                       /\ UNCHANGED queue
                  ELSE /\ queue' = IF enqueued
                                   THEN send_task(EXPERIMENTS_SET_METRICS,
                                                  [experiment_id |-> experiment_id,
                                                   data |-> data.records], actor)
                                   ELSE queue
                       /\ resp' = [request EXCEPT
                                      !.code = after_send_task(enqueued, HTTP_201_CREATED),
                                      !.experiment = experiment_id]
          ELSE /\ UNCHANGED queue
               /\ IF ~is_valid_metric(data.records[1])
                  THEN /\ resp' = [request EXCEPT !.code = ValidationError]
                       /\ UNCHANGED experiment_metrics
                  ELSE IF ~has_experiment(experiment_id)
                  THEN /\ resp' = [request EXCEPT !.code = HTTP_404_NOT_FOUND]
                       /\ UNCHANGED experiment_metrics
                  ELSE /\ experiment_metrics' =
                            Append(experiment_metrics,
                                   [experiment |-> experiment_id,
                                    values |-> data.records[1]])
                       /\ resp' = [request EXCEPT !.experiment = experiment_id,
                                                  !.data = <<data.records[1]>>]

----------------------------------------------------------------------------
(* Creation and derivation of experiments *)

\* RedisTTL.validate_ttl: the integer a ttl parses to; a ttl outside the
\* domain raises ValueError.  "" is the ttl of a request that sends none.
TtlValues == ("3600" :> 3600 @@ "60" :> 60)
validate_ttl(ttl) == TtlValues[ttl]

\* `if ttl: try validate_ttl(ttl) except ValueError: raise ValidationError`
ttl_is_malformed(ttl) == ttl # "" /\ ttl \notin DOMAIN TtlValues

\* RedisTTL.set_for_experiment, called only `if ttl`
set_for_experiment(ttl, experiment_id) ==
    IF ttl # "" THEN (experiment_id :> validate_ttl(ttl)) @@ ttls ELSE ttls

\* A handler that takes any group reference
group_is_never_invalid(group, project) == FALSE

\* `group and ExperimentGroup.objects.filter(id=group, project=project).count() == 0`
group_is_invalid(group, project) ==
    /\ group # 0
    /\ ~(group \in DOMAIN ExperimentGroups /\ ExperimentGroups[group].project = project)

\* The id the table gives the next experiment saved
next_experiment_id == Max(DOMAIN experiments) + 1

\* The tables after a new Experiment row is saved: the row is added and its
\* status ledger starts empty
save_experiment(row) ==
    /\ experiments' = experiments @@ (next_experiment_id :> row)
    /\ experiment_statuses' = experiment_statuses @@ (next_experiment_id :> <<>>)
    /\ experiment_status' = experiment_status @@ (next_experiment_id :> 0)

\* The specification validator: a value of 0 stands for a value the schema
\* refuses
is_valid_spec(config) == \A k \in DOMAIN config : config[k] > 0

\* Bodies of create requests: a plain one, one with a ttl and a group, one
\* with a malformed ttl, one with a group the project does not hold
CreateBodies ==
    {[ttl |-> "", experiment_group |-> 0, config |-> [lr |-> 1], description |-> None],
     [ttl |-> "3600", experiment_group |-> 1, config |-> [lr |-> 2],
      description |-> "new"],
     [ttl |-> "junk", experiment_group |-> 1, config |-> [lr |-> 1],
      description |-> None],
     [ttl |-> "60", experiment_group |-> 9, config |-> [lr |-> 1],
      description |-> None]}

\* POST .../<project>/experiments: ProjectExperimentListView.perform_create
\* behind CreateAPIView.create
ProjectExperimentListView_post(actor, body) ==
    /\ nreq < MaxReq
    /\ nreq' = nreq + 1
    /\ UNCHANGED <<jobs, job_statuses, job_status, now, queue, ephemeral_tokens,
                   tokens, experiment_metrics, recorder_up>>
    /\ LET request == [Response("create", HTTP_201_CREATED)
                       EXCEPT !.actor = actor, !.body = body]
           project == 1
       IN IF ttl_is_malformed(body.ttl) \/ group_is_invalid(body.experiment_group, project)
          THEN /\ resp' = [request EXCEPT !.code = ValidationError]
               /\ UNCHANGED <<experiments, experiment_statuses, experiment_status,
                              events, ttls>>
          ELSE LET raised == auditor_raises(EXPERIMENT_CREATED)
               IN /\ save_experiment([user |-> actor, project |-> project,
                                      experiment_group |-> body.experiment_group,
                                      config |-> body.config,
                                      description |-> body.description,
                                      original_experiment |-> 0,
                                      cloning_strategy |-> None])
                  /\ events' = auditor_record(EXPERIMENT_CREATED, next_experiment_id,
                                              actor)
                  /\ ttls' = IF raised THEN ttls
                             ELSE set_for_experiment(body.ttl, next_experiment_id)
                  /\ resp' = [request EXCEPT
                                 !.code = IF raised THEN AuditError ELSE HTTP_201_CREATED,
                                 !.derived = next_experiment_id]

\* The clone views and the event type each one sets
CloneKinds == {"restart", "resume", "copy"}
event_type_of(kind) ==
    CASE kind = "restart" -> EXPERIMENT_RESTARTED_TRIGGERED
      [] kind = "resume" -> EXPERIMENT_RESUMED_TRIGGERED
      [] kind = "copy" -> EXPERIMENT_COPIED_TRIGGERED

\* libs.utils.to_bool(value, handle_none=True, exception=ValidationError)
to_bool_raises(value) == value \notin {None, "true", "false"}
to_bool(value) == value = "true"

\* One entry merged into the specification built so far: the keys of the
\* entry take its values, every other key keeps the value it had
merge(base, entry) ==
    [k \in DOMAIN base \cup DOMAIN entry |->
        IF k \in DOMAIN entry THEN entry[k] ELSE base[k]]

\* validate_experiment_spec_config(configs).parsed_data: the entries merged
\* from the first to the last, later entries over earlier ones
RECURSIVE parsed_data(_)
parsed_data(configs) ==
    IF Len(configs) = 1 THEN configs[1]
    ELSE merge(parsed_data(SubSeq(configs, 1, Len(configs) - 1)), Last(configs))

\* A handler that hands the validator the override first
override_then_source(obj_config, override) == <<override, obj_config>>

\* [obj.specification.parsed_data, request.data['config']]
source_then_override(obj_config, override) == <<obj_config, override>>

\* A handler that falls back on the source's description
description_or_inherited(body, obj) ==
    IF "description" \in body.keys THEN body.description ELSE obj.description

\* description = None; if 'description' in request.data: description = ...
description_of(body, obj) ==
    IF "description" \in body.keys THEN body.description ELSE None

\* A clone view that records the event after the clone, for the new row
triggered_instance_is_derived(obj_id) == next_experiment_id

\* instance=obj of the auditor.record call, obj being self.get_object()
triggered_instance(obj_id) == obj_id

\* Experiment.restart / resume / copy: the row of the derived experiment
clone(kind, obj_id, actor, has_config, config, description) ==
    LET obj == experiments[obj_id]
    IN [user |-> actor, project |-> obj.project,
        experiment_group |-> IF kind = "copy" THEN 0 ELSE obj.experiment_group,
        config |-> IF has_config THEN config ELSE obj.config,
        description |-> description,
        original_experiment |-> obj_id,
        cloning_strategy |-> kind]

\* Bodies of clone requests: an empty one, a valid override of a key of the
\* source, a valid override adding a key together with a description, a ttl
\* and update_code, an override the validator refuses, an update_code that is
\* no boolean, a malformed ttl
CloneBodies ==
    {[keys |-> {}, config |-> <<>>, update_code |-> None, description |-> None,
      ttl |-> ""],
     [keys |-> {"config"}, config |-> [lr |-> 3], update_code |-> None,
      description |-> None, ttl |-> ""],
     [keys |-> {"config", "description", "update_code"}, config |-> [bs |-> 2],
      update_code |-> "true", description |-> "again", ttl |-> "3600"],
     [keys |-> {"config"}, config |-> [lr |-> 0], update_code |-> None,
      description |-> None, ttl |-> "60"],
     [keys |-> {"update_code"}, config |-> <<>>, update_code |-> "junk",
      description |-> None, ttl |-> "60"],
     [keys |-> {}, config |-> <<>>, update_code |-> None, description |-> None,
      ttl |-> "junk"]}

\* POST .../experiments/<id>/restart, /resume, /copy: ExperimentCloneView.post
\* with the event_type and the clone method of the view of that kind
ExperimentCloneView_post(kind, actor, id, body) ==
    /\ nreq < MaxReq
    /\ nreq' = nreq + 1
    /\ UNCHANGED <<jobs, job_statuses, job_status, now, queue, ephemeral_tokens,
                   tokens, experiment_metrics, recorder_up>>
    /\ LET request == [Response(kind, HTTP_201_CREATED)
                       EXCEPT !.actor = actor, !.body = body]
           unchanged_tables == UNCHANGED <<experiments, experiment_statuses,
                                           experiment_status, ttls>>
       IN IF ttl_is_malformed(body.ttl)
          THEN /\ resp' = [request EXCEPT !.code = ValidationError]
               /\ UNCHANGED events
               /\ unchanged_tables
          ELSE IF ~has_experiment(id)
          THEN /\ resp' = [request EXCEPT !.code = HTTP_404_NOT_FOUND]
               /\ UNCHANGED events
               /\ unchanged_tables
          ELSE LET obj == experiments[id]
                   raised == auditor_raises(event_type_of(kind))
                   has_config == "config" \in body.keys
                   config == IF has_config
                             THEN parsed_data(source_then_override(obj.config,
                                                                   body.config))
                             ELSE obj.config
                   rejected == \/ has_config /\ ~is_valid_spec(config)
                               \/ /\ "update_code" \in body.keys
                                  /\ to_bool_raises(body.update_code)
               IN /\ events' = auditor_record(event_type_of(kind),
                                              triggered_instance(id), actor)
                  /\ IF raised \/ rejected
                     THEN /\ resp' = [request EXCEPT
                                        !.code = IF raised THEN AuditError
                                                 ELSE ValidationError,
                                        !.experiment = id]
                          /\ unchanged_tables
                     ELSE /\ save_experiment(clone(kind, id, actor, has_config, config,
                                                   description_of(body, obj)))
                          /\ ttls' = set_for_experiment(body.ttl, next_experiment_id)
                          /\ resp' = [request EXCEPT !.experiment = id,
                                                     !.derived = next_experiment_id]

----------------------------------------------------------------------------
(* Listing the experiments of a project *)

\* Values of the `independent` and `group` query parameters; None and "" are
\* those of a request that sends none
IndependentParams == {None, "true", "false", "junk"}
GroupParams == {"", "1", "9"}
group_id_of == ("1" :> 1 @@ "9" :> 9)

\* A handler that finds the conflict only once it has resolved the group
conflicting_filters_of_known_group(independent, group_id) ==
    /\ to_bool(independent)
    /\ group_id # ""
    /\ group_id_of[group_id] \in DOMAIN ExperimentGroups

\* `independent and group_id`
conflicting_filters(independent, group_id) == to_bool(independent) /\ group_id # ""

\* The ids of a set, the greatest first: the handlers of the model leave
\* updated_at at the creation of the row, so ordering = ('-updated_at',)
\* lists the experiments from the newest to the oldest
RECURSIVE newest_first(_)
newest_first(ids) ==
    IF ids = {} THEN <<>> ELSE <<Max(ids)>> \o newest_first(ids \ {Max(ids)})

\* GET .../<project>/experiments?independent=..&group=..:
\* ProjectExperimentListView.filter_queryset behind ListAPIView.list
ProjectExperimentListView_get(actor, independent, group_id) ==
    /\ nreq < MaxReq
    /\ nreq' = nreq + 1
    /\ UNCHANGED <<experiments, jobs, ledger_vars, now, queue, ephemeral_tokens,
                   tokens, store_vars>>
    /\ LET request == [Response("list", HTTP_200_OK)
                       EXCEPT !.actor = actor,
                              !.body = [independent |-> independent,
                                        group |-> group_id]]
           project == 1
       IN IF to_bool_raises(independent) \/ conflicting_filters(independent, group_id)
          THEN /\ resp' = [request EXCEPT !.code = ValidationError]
               /\ UNCHANGED events
          ELSE IF group_id # "" /\ group_id_of[group_id] \notin DOMAIN ExperimentGroups
          THEN /\ resp' = [request EXCEPT !.code = HTTP_404_NOT_FOUND]
               /\ UNCHANGED events
          ELSE LET in_project == {e \in DOMAIN experiments :
                                     experiments[e].project = project}
                   kept == {e \in in_project :
                              /\ to_bool(independent)
                                 => experiments[e].experiment_group = 0
                              /\ group_id # ""
                                 => experiments[e].experiment_group
                                      = group_id_of[group_id]}
                   group_viewed ==
                       IF group_id # ""
                       THEN auditor_record(EXPERIMENT_GROUP_EXPERIMENTS_VIEWED,
                                           group_id_of[group_id], actor)
                       ELSE events
               IN /\ events' = auditor_record_onto(group_viewed,
                                                   PROJECT_EXPERIMENTS_VIEWED,
                                                   project, actor)
                  /\ resp' = [request EXCEPT !.data = newest_first(kept)]

----------------------------------------------------------------------------
(* Listing the metrics of an experiment; listing and creating its jobs *)

\* GET .../experiments/<experiment_id>/metrics
ExperimentMetricListView_get(actor, experiment_id) ==
    /\ nreq < MaxReq
    /\ nreq' = nreq + 1
    /\ UNCHANGED <<other_vars, ledger_vars, now>>
    /\ IF ~has_experiment(experiment_id)
       THEN /\ resp' = [Response("metrics_list", HTTP_404_NOT_FOUND)
                         EXCEPT !.actor = actor, !.path = <<experiment_id>>]
            /\ UNCHANGED events
       ELSE /\ resp' = [Response("metrics_list", HTTP_200_OK)
                         EXCEPT !.actor = actor, !.experiment = experiment_id,
                                !.path = <<experiment_id>>,
                                !.data = SelectSeq(experiment_metrics,
                                            LAMBDA m : m.experiment = experiment_id)]
            /\ events' = auditor_record(EXPERIMENT_METRICS_VIEWED, experiment_id, actor)

\* GET .../experiments/<experiment_id>/jobs
ExperimentJobListView_get(actor, experiment_id) ==
    /\ nreq < MaxReq
    /\ nreq' = nreq + 1
    /\ UNCHANGED <<other_vars, ledger_vars, now>>
    /\ IF ~has_experiment(experiment_id)
       THEN /\ resp' = [Response("jobs_list", HTTP_404_NOT_FOUND)
                         EXCEPT !.actor = actor, !.path = <<experiment_id>>]
            /\ UNCHANGED events
       ELSE /\ resp' = [Response("jobs_list", HTTP_200_OK)
                         EXCEPT !.actor = actor, !.experiment = experiment_id,
                                !.path = <<experiment_id>>,
                                !.data = newest_first({j \in DOMAIN jobs :
                                            jobs[j].experiment = experiment_id})]
            /\ events' = auditor_record(EXPERIMENT_JOBS_VIEWED, experiment_id, actor)

\* Bodies of job create requests; "junk" is one the serializer refuses
JobBodies == {"job", "junk"}

\* ExperimentJobDetailSerializer.is_valid
is_valid_job(body) == body = "job"

next_job_id == Max(DOMAIN jobs) + 1

\* POST .../experiments/<experiment_id>/jobs
ExperimentJobListView_post(actor, experiment_id, body) ==
    /\ nreq < MaxReq
    /\ nreq' = nreq + 1
    /\ UNCHANGED <<experiments, experiment_statuses, experiment_status, now, events,
                   queue, ephemeral_tokens, tokens, store_vars>>
    /\ LET request == [Response("jobs_create", HTTP_201_CREATED)
                       EXCEPT !.actor = actor, !.body = body,
                              !.path = <<experiment_id>>]
       IN IF ~is_valid_job(body) \/ ~has_experiment(experiment_id)
          THEN /\ resp' = [request EXCEPT
                              !.code = IF ~is_valid_job(body) THEN ValidationError
                                       ELSE HTTP_404_NOT_FOUND]
               /\ UNCHANGED <<jobs, job_statuses, job_status>>
          ELSE /\ jobs' = jobs @@ (next_job_id :> [experiment |-> experiment_id])
               /\ job_statuses' = job_statuses @@ (next_job_id :> <<>>)
               /\ job_status' = job_status @@ (next_job_id :> 0)
               /\ resp' = [request EXCEPT !.experiment = experiment_id,
                                          !.job = next_job_id]

----------------------------------------------------------------------------
(* The audit log's backend going down and coming back *)

RecorderFlips ==
    /\ recorder_up' = ~recorder_up
    /\ UNCHANGED <<experiments, jobs, ledger_vars, now, events, queue,
                   ephemeral_tokens, tokens, experiment_metrics, ttls, nreq, resp>>

----------------------------------------------------------------------------
(* Initial state: a project holding experiment 1 of user 1 (in group 1) and  *)
(* experiment 2 of user 2 (in no group), one job each, nothing appended,     *)
(* recorded, enqueued, granted or issued yet                                 *)

InitialExperiments ==
    (1 :> [user |-> 1, project |-> 1, experiment_group |-> 1,
           config |-> [lr |-> 1, layers |-> 2], description |-> "first",
           original_experiment |-> 0, cloning_strategy |-> None] @@
     2 :> [user |-> 2, project |-> 1, experiment_group |-> 0,
           config |-> [lr |-> 2], description |-> None,
           original_experiment |-> 0, cloning_strategy |-> None])

Init ==
    /\ experiments = InitialExperiments
    /\ jobs = (1 :> [experiment |-> 1] @@ 2 :> [experiment |-> 2])
    /\ experiment_statuses = [e \in {1, 2} |-> <<>>]
    /\ experiment_status = [e \in {1, 2} |-> 0]
    /\ job_statuses = [j \in {1, 2} |-> <<>>]
    /\ job_status = [j \in {1, 2} |-> 0]
    /\ now = 0
    /\ events = <<>>
    /\ queue = <<>>
    /\ ephemeral_tokens = <<>>
    /\ tokens = {}
    /\ experiment_metrics = <<>>
    /\ ttls = [e \in {} |-> 0]
    /\ recorder_up = TRUE
    /\ nreq = 0
    /\ resp = [Response("none", HTTP_200_OK) EXCEPT !.id = 0]

----------------------------------------------------------------------------
(* Every request of every caller on every id, known or not; the            *)
(* specifications below it restrict the callers and the inputs to the      *)
(* part of the system their claims are about                               *)

Next ==
    \/ \E actor \in Users, e \in DOMAIN experiments \cup {0}, s \in Statuses,
          m \in Messages : ExperimentStatusListView_post(actor, e, s, m)
    \/ \E actor \in Users, e \in DOMAIN experiments \cup {0} :
          ExperimentStatusListView_get(actor, e)
    \/ \E actor \in Users, e \in DOMAIN experiments \cup {0}, j \in DOMAIN jobs \cup {0},
          s \in Statuses, m \in Messages :
          ExperimentJobStatusListView_post(actor, e, j, s, m)
    \/ \E actor \in Users, e \in DOMAIN experiments \cup {0}, j \in DOMAIN jobs \cup {0} :
          ExperimentJobStatusListView_get(actor, e, j)
    \/ \E actor \in Users, e \in DOMAIN experiments \cup {0}, j \in DOMAIN jobs \cup {0},
          u \in 1..MaxReq, s \in Statuses, m \in Messages :
          ExperimentJobStatusDetailView_patch(actor, e, j, u, s, m)
    \/ \E actor \in Users, e \in DOMAIN experiments \cup {0}, enqueued \in BOOLEAN :
          ExperimentStopView_post(actor, e, enqueued)
    \/ \E user \in Users, e \in DOMAIN experiments, scope \in ScopeLists :
          grant_scope(user, e, scope)
    \/ \E e \in DOMAIN experiments \cup {0}, scope \in ScopeLists \cup {NoScope} :
          ExperimentScopeTokenView_post(scope, e)
    \/ \E actor \in Users, e \in DOMAIN experiments \cup {0}, data \in MetricPayloads,
          enqueued \in BOOLEAN :
          ExperimentMetricListView_create(actor, e, data, enqueued)
    \/ \E actor \in Users, body \in CreateBodies :
          ProjectExperimentListView_post(actor, body)
    \/ \E kind \in CloneKinds, actor \in Users, e \in DOMAIN experiments \cup {0},
          body \in CloneBodies : ExperimentCloneView_post(kind, actor, e, body)
    \/ \E actor \in Users, independent \in IndependentParams, group_id \in GroupParams :
          ProjectExperimentListView_get(actor, independent, group_id)
    \/ \E actor \in Users, e \in DOMAIN experiments \cup {0} :
          ExperimentMetricListView_get(actor, e)
    \/ \E actor \in Users, e \in DOMAIN experiments \cup {0} :
          ExperimentJobListView_get(actor, e)
    \/ \E actor \in Users, e \in DOMAIN experiments \cup {0}, body \in JobBodies :
          ExperimentJobListView_post(actor, e, body)
    \/ RecorderFlips
    \/ Tick

Spec == Init /\ [][Next]_vars

----------------------------------------------------------------------------
(* The status ledgers of one experiment and its job under interleaved      *)
(* requests                                                                *)

LedgerStatuses == {RUNNING, SUCCEEDED, FAILED}

LedgerNext ==
    \/ \E s \in LedgerStatuses, m \in Messages :
          ExperimentStatusListView_post(1, 1, s, m)
    \/ ExperimentStatusListView_get(1, 1)
    \/ \E s \in LedgerStatuses, m \in Messages :
          ExperimentJobStatusListView_post(1, 1, 1, s, m)
    \/ ExperimentJobStatusListView_get(1, 1, 1)
    \/ \E u \in 1..MaxReq, s \in LedgerStatuses, m \in Messages :
          ExperimentJobStatusDetailView_patch(1, 1, 1, u, s, m)
    \/ Tick

SpecLedger == Init /\ [][LedgerNext]_vars

----------------------------------------------------------------------------
(* The scope-token exchange on two experiments of two owners, while their  *)
(* statuses change and grants are issued and reissued                      *)

AuthScopes == {<<>>, <<1>>, <<1, 2>>}

AuthNext ==
    \/ \E e \in DOMAIN experiments, s \in {RUNNING, SUCCEEDED} :
          ExperimentStatusListView_post(experiments[e].user, e, s, "")
    \/ \E e \in DOMAIN experiments, scope \in AuthScopes :
          grant_scope(experiments[e].user, e, scope)
    \/ \E e \in DOMAIN experiments, scope \in AuthScopes \cup {NoScope} :
          ExperimentScopeTokenView_post(scope, e)

SpecAuth == Init /\ [][AuthNext]_vars

(* The comparison of scopes: experiment 1 is running, a grant with any      *)
(* scope list is stored for it, and any scope list is presented            *)

InitScope ==
    /\ experiments = InitialExperiments
    /\ jobs = (1 :> [experiment |-> 1] @@ 2 :> [experiment |-> 2])
    /\ experiment_statuses =
          (1 :> <<[id |-> 1, status |-> RUNNING, message |-> "", created_at |-> 0]>> @@
           2 :> <<>>)
    /\ experiment_status = (1 :> 1 @@ 2 :> 0)
    /\ job_statuses = [j \in {1, 2} |-> <<>>]
    /\ job_status = [j \in {1, 2} |-> 0]
    /\ now = 0
    /\ events = <<>>
    /\ queue = <<>>
    /\ \E stored \in ScopeLists :
          ephemeral_tokens = <<[user |-> 1, object_id |-> 1, scope |-> stored]>>
    /\ tokens = {}
    /\ experiment_metrics = <<>>
    /\ ttls = [e \in {} |-> 0]
    /\ recorder_up = TRUE
    /\ nreq = 0
    /\ resp = [Response("none", HTTP_200_OK) EXCEPT !.id = 0]

ScopeNext == \E scope \in ScopeLists : ExperimentScopeTokenView_post(scope, 1)

SpecScope == InitScope /\ [][ScopeNext]_vars

(* Stop requests of two users on the two experiments and on an id that is  *)
(* not one, with a broker that may refuse a task, among status listings    *)

StopNext ==
    \/ \E actor \in Users, id \in DOMAIN experiments \cup {0}, enqueued \in BOOLEAN :
          ExperimentStopView_post(actor, id, enqueued)
    \/ \E actor \in Users : ExperimentStatusListView_get(actor, 1)

SpecStop == Init /\ [][StopNext]_vars

----------------------------------------------------------------------------
(* The two handlers that hand commands to the queue: metrics of a known and *)
(* of an unknown experiment, and the stop of experiment 1                   *)

DispatchNext ==
    \/ \E e \in {0, 1}, data \in MetricPayloads, enqueued \in BOOLEAN :
          ExperimentMetricListView_create(1, e, data, enqueued)
    \/ \E enqueued \in BOOLEAN : ExperimentStopView_post(1, 1, enqueued)

SpecDispatch == Init /\ [][DispatchNext]_vars

----------------------------------------------------------------------------
(* Creation and derivation: user 2 creates experiments and restarts,        *)
(* resumes and copies experiment 1 of user 1 and experiment 3, which is     *)
(* unknown until the first experiment is created or derived                 *)

CloneNext ==
    \/ \E body \in CreateBodies : ProjectExperimentListView_post(2, body)
    \/ \E kind \in CloneKinds, id \in {1, 3}, body \in CloneBodies :
          ExperimentCloneView_post(kind, 2, id, body)

SpecClone == Init /\ [][CloneNext]_vars

----------------------------------------------------------------------------
(* Listings of the project by both users under every combination of the    *)
(* two filters, while user 2 creates experiments in and out of group 1     *)

ListNext ==
    \/ \E actor \in Users, independent \in IndependentParams, group_id \in GroupParams :
          ProjectExperimentListView_get(actor, independent, group_id)
    \/ \E body \in {b \in CreateBodies : b.ttl \in {"", "3600"}} :
          ProjectExperimentListView_post(2, body)

SpecList == Init /\ [][ListNext]_vars

----------------------------------------------------------------------------
(* Creations and stops by user 2 while the audit log's backend goes down    *)
(* and comes back                                                           *)

AuditNext ==
    \/ RecorderFlips
    \/ \E body \in CreateBodies : ProjectExperimentListView_post(2, body)
    \/ \E id \in {1, 3}, enqueued \in BOOLEAN : ExperimentStopView_post(2, id, enqueued)

SpecAudit == Init /\ [][AuditNext]_vars

----------------------------------------------------------------------------
(* Exchanges addressed to experiment 1 and to an id no experiment has, by   *)
(* callers with and without a scope, while experiment 1 goes live and ends  *)
(* and grants are issued for it                                             *)

DenialNext ==
    \/ \E s \in {RUNNING, SUCCEEDED} : ExperimentStatusListView_post(1, 1, s, "")
    \/ \E scope \in {<<>>, <<1>>} : grant_scope(1, 1, scope)
    \/ \E id \in {0, 1}, scope \in {<<>>, <<1>>, NoScope} :
          ExperimentScopeTokenView_post(scope, id)

SpecDenial == Init /\ [][DenialNext]_vars

----------------------------------------------------------------------------
(* Listings and creations of statuses, metrics and jobs by user 1 under     *)
(* experiment 1 and under an id no experiment has, and of the statuses of   *)
(* job 1 and of job 2, which belongs to experiment 2, under experiment 1    *)

SomeMetricPayloads ==
    {[many |-> TRUE, records |-> <<"m1">>],
     [many |-> FALSE, records |-> <<"m1">>],
     [many |-> FALSE, records |-> <<"junk">>]}

NotFoundNext ==
    \/ \E e \in {0, 1}, s \in {RUNNING, "junk"} : ExperimentStatusListView_post(1, e, s, "")
    \/ \E e \in {0, 1} : ExperimentStatusListView_get(1, e)
    \/ \E e \in {0, 1}, j \in {1, 2}, s \in {RUNNING, "junk"} :
          ExperimentJobStatusListView_post(1, e, j, s, "")
    \/ \E e \in {0, 1}, j \in {1, 2} : ExperimentJobStatusListView_get(1, e, j)
    \/ \E e \in {0, 1}, data \in SomeMetricPayloads :
          ExperimentMetricListView_create(1, e, data, TRUE)
    \/ \E e \in {0, 1} : ExperimentMetricListView_get(1, e)
    \/ \E e \in {0, 1} : ExperimentJobListView_get(1, e)
    \/ \E e \in {0, 1}, body \in JobBodies : ExperimentJobListView_post(1, e, body)

SpecNotFound == Init /\ [][NotFoundNext]_vars

----------------------------------------------------------------------------
(* Claims about the status ledgers *)

Ascending(listing) ==
    \A i \in 1..(Len(listing) - 1) : listing[i].created_at <= listing[i + 1].created_at

IsStatusCreate(r) == r.op \in {"experiment_status_create", "job_status_create"}

\* last_status of the entity a status request addressed, in the state it is read in
EntityLastStatus(r) ==
    IF r.job # 0 THEN job_last_status(r.job) ELSE experiment_last_status(r.experiment)

EntityRows(r) ==
    IF r.job # 0 THEN job_statuses[r.job] ELSE experiment_statuses[r.experiment]

\* C1: every status listing answered for an experiment or a job is ascending in
\* created_at, and the entity's last_status is the status of the listing's last
\* element.
C1_ListingEndsWithLastStatus ==
    (resp.op \in {"experiment_status_list", "job_status_list"} /\ resp.code = HTTP_200_OK)
    => /\ Ascending(resp.data)
       /\ resp.data # <<>> => Last(resp.data).status = EntityLastStatus(resp)

\* C2: the ledgers are append-only: every row of an experiment or of a job that
\* exists before a step exists after it at the same place with the same status,
\* message and created_at.
C2_AppendOnly ==
    [][/\ \A e \in DOMAIN experiment_statuses :
            /\ Len(experiment_statuses'[e]) >= Len(experiment_statuses[e])
            /\ \A i \in 1..Len(experiment_statuses[e]) :
                  experiment_statuses'[e][i] = experiment_statuses[e][i]
       /\ \A j \in DOMAIN job_statuses :
            /\ Len(job_statuses'[j]) >= Len(job_statuses[j])
            /\ \A i \in 1..Len(job_statuses[j]) :
                  job_statuses'[j][i] = job_statuses[j][i]]_vars

\* C3: a status create addressed to an entity whose last_status is terminal and
\* carrying another status ends in TerminalStateViolation and leaves every
\* ledger and every last_status pointer as it was.
C3_TerminalRejectsOtherStatus ==
    [][(/\ nreq' # nreq
        /\ IsStatusCreate(resp')
        /\ resp'.code # HTTP_404_NOT_FOUND
        /\ EntityLastStatus(resp') \in TerminalStatuses
        /\ resp'.status # EntityLastStatus(resp'))
       => /\ resp'.code = TerminalStateViolation
          /\ UNCHANGED ledger_vars]_vars

C3_Witness ==
    /\ IsStatusCreate(resp)
    /\ resp.code = TerminalStateViolation
    /\ resp.before \in TerminalStatuses
    /\ resp.status # resp.before
    /\ EntityRows(resp) # <<>>

\* C4: a status create addressed to an entity whose last_status is terminal and
\* carrying that same status succeeds, inserts one row and leaves last_status
\* at the value it had, each time it is repeated.
C4_SameTerminalIsAccepted ==
    [][(/\ nreq' # nreq
        /\ IsStatusCreate(resp')
        /\ resp'.code # HTTP_404_NOT_FOUND
        /\ EntityLastStatus(resp') \in TerminalStatuses
        /\ resp'.status = EntityLastStatus(resp'))
       => /\ resp'.code = HTTP_201_CREATED
          /\ IF resp'.job # 0
             THEN /\ last_status(job_statuses'[resp'.job], job_status'[resp'.job]) =
                       job_last_status(resp'.job)
                  /\ Len(job_statuses'[resp'.job]) = Len(job_statuses[resp'.job]) + 1
             ELSE /\ last_status(experiment_statuses'[resp'.experiment],
                                 experiment_status'[resp'.experiment]) =
                       experiment_last_status(resp'.experiment)
                  /\ Len(experiment_statuses'[resp'.experiment]) =
                       Len(experiment_statuses[resp'.experiment]) + 1]_vars

C4_Witness ==
    /\ IsStatusCreate(resp)
    /\ resp.code = HTTP_201_CREATED
    /\ resp.before \in TerminalStatuses
    /\ Len(EntityRows(resp)) >= 3
    /\ \A i \in 1..Len(EntityRows(resp)) : EntityRows(resp)[i].status = resp.before
    /\ EntityLastStatus(resp) = resp.before

----------------------------------------------------------------------------
(* Claims about the scope-token exchange *)

IsExchange(r) == r.op = "scope_token"

Owner(experiment_id) == experiments[experiment_id].user

SetOf(s) == {s[k] : k \in 1..Len(s)}

Count(tag, s) == Cardinality({k \in 1..Len(s) : s[k] = tag})

SameMultiset(s, t) == \A tag \in Tags : Count(tag, s) = Count(tag, t)

\* C5: an exchange addressed to an experiment whose last_status is none of
\* scheduled, starting, running ends in 403, hands out no credential and
\* leaves the token table as it was, whatever scope is presented or stored.
C5_NotLiveIsForbidden ==
    [][(/\ nreq' # nreq
        /\ IsExchange(resp')
        /\ has_experiment(resp'.experiment)
        /\ experiment_last_status(resp'.experiment) \notin {SCHEDULED, STARTING, RUNNING})
       => /\ resp'.code = HTTP_403_FORBIDDEN
          /\ resp'.token = 0
          /\ UNCHANGED tokens]_vars

C5_Witness ==
    /\ IsExchange(resp)
    /\ resp.code = HTTP_403_FORBIDDEN
    /\ has_experiment(resp.experiment)
    /\ experiment_last_status(resp.experiment) = SUCCEEDED
    /\ grants_of(Owner(resp.experiment), resp.experiment) # {}
    /\ resp.scope = get_scope(Owner(resp.experiment), resp.experiment)

\* C6: the exchange on a live experiment accepts the presented scope if and
\* only if it equals the stored scope as a set.
C6_AcceptsIffEqualSets ==
    (/\ IsExchange(resp)
     /\ resp.scope # NoScope
     /\ experiment_last_status(resp.experiment) \in LiveStatuses)
    => (resp.code = HTTP_200_OK
        <=> SetOf(resp.scope) = SetOf(get_scope(Owner(resp.experiment), resp.experiment)))

\* C6, amended: the exchange on a live experiment accepts the presented scope
\* if and only if it holds the same tags as the stored scope, each as often:
\* the order of the two lists is irrelevant, a repeated tag is not.
C6_AcceptsIffEqualMultisets ==
    (/\ IsExchange(resp)
     /\ resp.scope # NoScope
     /\ experiment_last_status(resp.experiment) \in LiveStatuses)
    => (resp.code = HTTP_200_OK
        <=> SameMultiset(resp.scope, get_scope(Owner(resp.experiment), resp.experiment)))

C6_Witness ==
    /\ IsExchange(resp)
    /\ resp.code = HTTP_200_OK
    /\ Len(resp.scope) = 2
    /\ resp.scope # get_scope(Owner(resp.experiment), resp.experiment)

\* C7: an exchange addressed to an experiment for whose (owner, experiment)
\* no grant was issued is never answered with 200.
C7_NoGrantIsDenied ==
    (/\ IsExchange(resp)
     /\ has_experiment(resp.experiment)
     /\ grants_of(Owner(resp.experiment), resp.experiment) = {})
    => resp.code # HTTP_200_OK

\* C8: an exchange is accepted only when the presented scope matches the scope
\* of the latest grant of the key; presenting the scope of an earlier grant
\* that a grant with another set of tags has replaced ends in 403.
C8_ComparesWithLatestGrant ==
    (IsExchange(resp) /\ has_experiment(resp.experiment))
    => LET mine == grants_of(Owner(resp.experiment), resp.experiment)
           latest == get_scope(Owner(resp.experiment), resp.experiment)
       IN /\ resp.code = HTTP_200_OK => SameMultiset(resp.scope, latest)
          /\ (\E k \in mine : /\ k < Max(mine)
                               /\ ephemeral_tokens[k].scope = resp.scope
                               /\ SetOf(resp.scope) # SetOf(latest))
             => resp.code = HTTP_403_FORBIDDEN

C8_Witness ==
    /\ IsExchange(resp)
    /\ resp.code = HTTP_403_FORBIDDEN
    /\ has_experiment(resp.experiment)
    /\ experiment_last_status(resp.experiment) = RUNNING
    /\ LET mine == grants_of(Owner(resp.experiment), resp.experiment)
       IN \E k \in mine : /\ k < Max(mine)
                           /\ ephemeral_tokens[k].scope = resp.scope
                           /\ SetOf(resp.scope) #
                                SetOf(get_scope(Owner(resp.experiment), resp.experiment))

\* C9: the token table never holds two credentials of one user, no credential
\* is ever removed or replaced, and a successful exchange returns the
\* credential of the experiment's owner that existed before it when there was
\* one.
C9_OneCredentialPerUser ==
    [][/\ tokens \subseteq tokens'
       /\ \A u \in Users : Cardinality({t \in tokens' : t.user = u}) <= 1
       /\ (nreq' # nreq /\ IsExchange(resp') /\ resp'.code = HTTP_200_OK)
          => \E t \in tokens' :
                /\ t.user = Owner(resp'.experiment)
                /\ t.key = resp'.token
                /\ \A old \in tokens : old.user = t.user => old = t]_vars

C9_Witness ==
    /\ IsExchange(resp)
    /\ resp.code = HTTP_200_OK
    /\ ~resp.created
    /\ \E t \in tokens : t.user = Owner(resp.experiment) /\ t.key = resp.token

----------------------------------------------------------------------------
(* Claims about the stop command *)

StopCommands(request_id) ==
    {k \in 1..Len(queue) :
        queue[k].task = EXPERIMENTS_STOP /\ queue[k].request.id = request_id}

StopEvents(request_id, experiment_id, actor) ==
    {i \in 1..Len(events) :
        /\ events[i].type = EXPERIMENT_STOPPED_TRIGGERED
        /\ events[i].request = request_id
        /\ events[i].instance = experiment_id
        /\ events[i].actor_id = actor}

C11_StopPayload ==
    \A k \in 1..Len(queue) :
        queue[k].task = EXPERIMENTS_STOP
        => \E id \in DOMAIN experiments :
              LET kw == queue[k].kwargs
                  e == experiments[id]
              IN /\ kw.experiment_uuid = <<"uuid", "experiment", id>>
                 /\ kw.experiment_name = <<Projects[e.project].user,
                                           Projects[e.project].name, id>>
                 /\ kw.project_name = <<Projects[e.project].user,
                                        Projects[e.project].name>>
                 /\ kw.project_uuid = <<"uuid", "project", e.project>>
                 /\ kw.specification = e.config
                 /\ kw.update_status = TRUE
                 /\ IF e.experiment_group = 0
                    THEN kw.experiment_group_name = <<>> /\ kw.experiment_group_uuid = <<>>
                    ELSE /\ kw.experiment_group_name # <<>>
                         /\ kw.experiment_group_name[Len(kw.experiment_group_name)]
                              = e.experiment_group
                         /\ kw.experiment_group_uuid
                              = <<"uuid", "group", e.experiment_group>>

C11_Witness ==
    /\ \E k \in 1..Len(queue) :
          /\ queue[k].task = EXPERIMENTS_STOP
          /\ queue[k].kwargs.experiment_group_uuid = <<>>
          /\ queue[k].kwargs.experiment_group_name = <<>>
    /\ \E k \in 1..Len(queue) :
          /\ queue[k].task = EXPERIMENTS_STOP
          /\ queue[k].kwargs.experiment_group_uuid # <<>>
          /\ queue[k].kwargs.experiment_group_name # <<>>

----------------------------------------------------------------------------
(* Claims about the metrics handler *)

IsMetricsCreate(r) == r.op = "metrics_create"

\* C12: a metrics create request takes one path, chosen by the shape of its
\* payload.  A list payload never writes a metric row, and when it is
\* answered 201 it has put exactly one set_metrics command on the queue, with
\* the experiment's id and all the records of the list; a single-object
\* payload never enqueues a command, and when it is answered 201 it has
\* written exactly one metric row, of that experiment and that object.  A
\* request answered otherwise has done neither.
C12_MetricsOnePath ==
    [][(nreq' # nreq /\ IsMetricsCreate(resp'))
       => IF resp'.body.many
          THEN /\ experiment_metrics' = experiment_metrics
               /\ IF resp'.code = HTTP_201_CREATED
                  THEN /\ Len(queue') = Len(queue) + 1
                       /\ SubSeq(queue', 1, Len(queue)) = queue
                       /\ Last(queue').task = EXPERIMENTS_SET_METRICS
                       /\ Last(queue').kwargs.experiment_id = resp'.experiment
                       /\ Last(queue').kwargs.data = resp'.body.records
                  ELSE queue' = queue
          ELSE /\ queue' = queue
               /\ IF resp'.code = HTTP_201_CREATED
                  THEN /\ Len(experiment_metrics') = Len(experiment_metrics) + 1
                       /\ SubSeq(experiment_metrics', 1, Len(experiment_metrics))
                            = experiment_metrics
                       /\ Last(experiment_metrics').experiment = resp'.experiment
                       /\ Last(experiment_metrics').values = resp'.body.records[1]
                  ELSE experiment_metrics' = experiment_metrics]_vars

C12_Witness ==
    /\ IsMetricsCreate(resp)
    /\ resp.code = HTTP_201_CREATED
    /\ Len(experiment_metrics) = 1
    /\ \E k \in 1..Len(queue) :
          /\ queue[k].task = EXPERIMENTS_SET_METRICS
          /\ Len(queue[k].kwargs.data) = 3
    /\ \E k \in 1..Len(queue) :
          /\ queue[k].task = EXPERIMENTS_SET_METRICS
          /\ Len(queue[k].kwargs.data) = 1

----------------------------------------------------------------------------
(* Claims about creation and derivation *)

IsClone(r) == r.op \in CloneKinds

\* The experiments a step adds to the table
Added == DOMAIN experiments' \ DOMAIN experiments

\* C13: a restart, resume or copy request that creates a derived experiment
\* appends exactly one event in the same request, of the triggered type of
\* its kind (restarted for restart, resumed for resume, copied for copy),
\* whose instance is the source experiment: an experiment that was in the
\* table before the request and is not the derived one.  A request that gets
\* as far as the validation of its override has recorded the event although
\* no derived experiment exists: the event is recorded before the derived
\* experiment is created.
C13_TriggeredEventNamesSource ==
    [][(nreq' # nreq /\ IsClone(resp'))
       => /\ (resp'.code = HTTP_201_CREATED) => Cardinality(Added) = 1
          /\ \A d \in Added :
                /\ d = resp'.derived
                /\ Len(events') = Len(events) + 1
                /\ LET e == Last(events')
                   IN /\ e.request = resp'.id
                      /\ e.instance = resp'.experiment
                      /\ e.instance = experiments'[d].original_experiment
                      /\ e.instance \in DOMAIN experiments
                      /\ e.instance # d
                      /\ (resp'.op = "restart") <=> (e.type = "experiment.restarted_triggered")
                      /\ (resp'.op = "resume") <=> (e.type = "experiment.resumed_triggered")
                      /\ (resp'.op = "copy") <=> (e.type = "experiment.copied_triggered")
          /\ (resp'.code = ValidationError /\ resp'.experiment # 0)
             => /\ Added = {}
                /\ Len(events') = Len(events) + 1
                /\ Last(events').instance = resp'.experiment
          /\ \A i \in (Len(events) + 1)..Len(events') :
                events'[i].instance \in DOMAIN experiments]_vars

C13_Witness ==
    /\ IsClone(resp)
    /\ resp.code = HTTP_201_CREATED
    /\ resp.op = "resume"
    /\ \E i, j \in 1..Len(events) :
          /\ events[i].type = EXPERIMENT_COPIED_TRIGGERED
          /\ events[j].type = EXPERIMENT_RESTARTED_TRIGGERED
          /\ events[j].instance = 3
          /\ experiments[3].original_experiment = 1

\* C14: the experiment a restart, resume or copy request derives has an id
\* that no experiment had before, so not the id of its source; its status
\* ledger is empty and its status pointer unset when the request returns; and
\* when the request supplies no description its description is unset, even
\* if the source has one.
C14_DerivedIsFresh ==
    [][(nreq' # nreq /\ IsClone(resp'))
       => \A d \in Added :
             /\ d \notin DOMAIN experiments
             /\ d # resp'.experiment
             /\ experiments'[d].original_experiment = resp'.experiment
             /\ experiment_statuses'[d] = <<>>
             /\ experiment_status'[d] = 0
             /\ ("description" \notin resp'.body.keys)
                => experiments'[d].description = None
             /\ \A e \in DOMAIN experiments : experiments'[e] = experiments[e]]_vars

C14_Witness ==
    /\ IsClone(resp)
    /\ resp.code = HTTP_201_CREATED
    /\ "description" \notin resp.body.keys
    /\ experiments[resp.experiment].description # None
    /\ experiments[resp.derived].description = None
    /\ experiment_statuses[resp.derived] = <<>>

\* C15: when a restart, resume or copy request carries a config override,
\* the specification of the derived experiment has the keys of the source's
\* specification and of the override, every key of the override with the
\* override's value and every other key with the source's value, and it is
\* a specification the validator accepts; when the request carries no
\* override, the derived experiment has the source's specification
\* unchanged.
C15_OverrideWins ==
    [][(nreq' # nreq /\ IsClone(resp'))
       => \A d \in Added :
             LET source == experiments[resp'.experiment].config
                 override == resp'.body.config
                 derived == experiments'[d].config
             IN IF "config" \in resp'.body.keys
                THEN /\ DOMAIN derived = DOMAIN source \cup DOMAIN override
                     /\ \A k \in DOMAIN override : derived[k] = override[k]
                     /\ \A k \in DOMAIN source \ DOMAIN override :
                           derived[k] = source[k]
                     /\ \A k \in DOMAIN derived : derived[k] # 0
                ELSE derived = source]_vars

C15_Witness ==
    /\ IsClone(resp)
    /\ resp.code = HTTP_201_CREATED
    /\ "config" \in resp.body.keys
    /\ experiments[resp.experiment].config = [lr |-> 1, layers |-> 2]
    /\ resp.body.config = [lr |-> 3]
    /\ experiments[resp.derived].config = [lr |-> 3, layers |-> 2]
    /\ \E e \in DOMAIN experiments :
          /\ experiments[e].original_experiment # 0
          /\ experiments[e].config = experiments[experiments[e].original_experiment].config

\* C17: a create, restart, resume or copy request answered with a
\* ValidationError leaves the experiment table, every status ledger, the ttl
\* store and the queue as they were; and a request with a malformed ttl, a
\* create request naming a group the project does not hold, and a clone
\* request of a known experiment whose override holds a value the validator
\* refuses are all answered with a ValidationError.
C17_RejectedLeavesNoTrace ==
    [][(nreq' # nreq /\ (resp'.op = "create" \/ IsClone(resp')))
       => /\ (resp'.code = ValidationError)
             => /\ experiments' = experiments
                /\ experiment_statuses' = experiment_statuses
                /\ experiment_status' = experiment_status
                /\ job_statuses' = job_statuses
                /\ job_status' = job_status
                /\ ttls' = ttls
                /\ queue' = queue
          /\ (resp'.body.ttl \notin {"", "60", "3600"})
             => resp'.code = ValidationError
          /\ (/\ resp'.op = "create"
              /\ resp'.body.experiment_group # 0
              /\ resp'.body.experiment_group \notin DOMAIN ExperimentGroups)
             => resp'.code = ValidationError
          /\ (/\ IsClone(resp')
              /\ resp'.experiment # 0
              /\ "config" \in resp'.body.keys
              /\ \E k \in DOMAIN resp'.body.config : resp'.body.config[k] = 0)
             => resp'.code = ValidationError]_vars

C17_Witness ==
    /\ IsClone(resp)
    /\ resp.code = ValidationError
    /\ resp.experiment = 1
    /\ resp.body.ttl = "60"
    /\ "config" \in resp.body.keys
    /\ DOMAIN experiments = {1, 2, 3}
    /\ DOMAIN ttls = {3}
    /\ nreq = 3

----------------------------------------------------------------------------
(* Claims about the listing of a project *)

\* C18: a list request with independent=true and a non-empty group filter,
\* whoever sends it and whether or not the group exists, is answered with a
\* ValidationError, returns no experiment record and leaves the audit log as
\* it was.
C18_ConflictingFiltersRefused ==
    [][(/\ nreq' # nreq
        /\ resp'.op = "list"
        /\ resp'.body.independent = "true"
        /\ resp'.body.group # "")
       => /\ resp'.code = ValidationError
          /\ resp'.data = <<>>
          /\ events' = events]_vars

C18_Witness ==
    /\ resp.op = "list"
    /\ resp.code = ValidationError
    /\ resp.body.independent = "true"
    /\ resp.body.group = "9"
    /\ \E i \in 1..Len(events) : events[i].type = EXPERIMENT_GROUP_EXPERIMENTS_VIEWED
    /\ \E i \in 1..Len(events) : events[i].type = PROJECT_EXPERIMENTS_VIEWED

----------------------------------------------------------------------------
(* Claims about failures of the recorder and of the broker *)

\* C19: whether or not the audit log takes the event, a create request with
\* a well-formed ttl and a valid group is answered 201 and has added exactly
\* one experiment, and a stop request of a known experiment whose task the
\* broker takes is answered 200 and has put its stop command on the queue;
\* no request removes an experiment from the table.
C19_RecorderFailureIsSwallowed ==
    [][/\ DOMAIN experiments \subseteq DOMAIN experiments'
       /\ (/\ nreq' # nreq
           /\ resp'.op = "create"
           /\ resp'.body.ttl \in {"", "60", "3600"}
           /\ resp'.body.experiment_group \in {0} \cup DOMAIN ExperimentGroups)
          => /\ resp'.code = HTTP_201_CREATED
             /\ Added = {resp'.derived}
             /\ resp'.derived \notin DOMAIN experiments
             /\ (resp'.body.ttl # "") => resp'.derived \in DOMAIN ttls'
       /\ (/\ nreq' # nreq
           /\ resp'.op = "stop"
           /\ resp'.experiment # 0
           /\ resp'.body.enqueued)
          => /\ resp'.code = HTTP_200_OK
             /\ Len(queue') = Len(queue) + 1
             /\ Last(queue').task = EXPERIMENTS_STOP
             /\ Last(queue').request.id = resp'.id]_vars

C19_Witness ==
    /\ ~recorder_up
    /\ resp.op = "stop"
    /\ resp.code = HTTP_200_OK
    /\ resp.experiment = 3
    /\ StopCommands(resp.id) # {}
    /\ \A i \in 1..Len(events) : events[i].request # resp.id
    /\ \A i \in 1..Len(events) :
          ~(events[i].type = EXPERIMENT_CREATED /\ events[i].instance = 3)

\* C20: a stop request is answered 200, and a metrics request with a list
\* payload is answered 201, only when the request has put its command on the
\* queue; when the broker does not take the task of a request that reached
\* send_task, the queue is as it was and the request is answered with the
\* broker's error.
C20_EnqueueFailureReachesCaller ==
    [][(/\ nreq' # nreq
        /\ \/ resp'.op = "stop"
           \/ IsMetricsCreate(resp') /\ resp'.body.many)
       => /\ resp'.code \in {HTTP_200_OK, HTTP_201_CREATED}
             => /\ Len(queue') = Len(queue) + 1
                /\ SubSeq(queue', 1, Len(queue)) = queue
                /\ Last(queue').request.id = resp'.id
                /\ Last(queue').task = IF resp'.op = "stop" THEN EXPERIMENTS_STOP
                                       ELSE EXPERIMENTS_SET_METRICS
          /\ (resp'.experiment # 0 /\ queue' = queue)
             => resp'.code = EnqueueError]_vars

C20_Witness ==
    /\ IsMetricsCreate(resp)
    /\ resp.body.many
    /\ resp.code = EnqueueError
    /\ Len(queue) = 1
    /\ queue[1].task = EXPERIMENTS_STOP
    /\ \E i \in 1..Len(events) :
          /\ events[i].type = EXPERIMENT_STOPPED_TRIGGERED
          /\ events[i].request # queue[1].request.id

----------------------------------------------------------------------------
(* Claims about the events of status appends *)

\* The new-status event types of event_manager.events, named after the
\* pattern of TENSORBOARD_NEW_STATUS
EXPERIMENT_NEW_STATUS == "experiment.new_status"
EXPERIMENT_JOB_NEW_STATUS == "experiment_job.new_status"

NewStatusEvents(event_type, instance) ==
    {i \in 1..Len(events) :
        events[i].type = event_type /\ events[i].instance = instance}

\* C16: for every experiment and every job, the log holds at least as many
\* new-status events of that entity as its status ledger holds rows: the
\* events never fall behind the rows the status-create operation appended.
C16_NewStatusEventPerRow ==
    /\ \A e \in DOMAIN experiment_statuses :
          Cardinality(NewStatusEvents(EXPERIMENT_NEW_STATUS, e))
             >= Len(experiment_statuses[e])
    /\ \A j \in DOMAIN job_statuses :
          Cardinality(NewStatusEvents(EXPERIMENT_JOB_NEW_STATUS, j))
             >= Len(job_statuses[j])

----------------------------------------------------------------------------
(* Claims about the order of a listing and the frame of an append *)

IsStatusList(r) ==
    r.op \in {"experiment_status_list", "job_status_list"} /\ r.code = HTTP_200_OK

\* C21: a listing of the statuses of an experiment or of a job shows the
\* rows of that entity's ledger in the order they were inserted, rows with
\* equal created_at included: the sequence ids of the listing ascend, and the
\* listing is the ledger as it stands when the listing is answered (so a
\* later listing extends an earlier one).
C21_ListingInInsertionOrder ==
    IsStatusList(resp)
    => /\ \A i \in 1..(Len(resp.data) - 1) : resp.data[i].id < resp.data[i + 1].id
       /\ resp.data = IF resp.op = "experiment_status_list"
                      THEN experiment_statuses[resp.experiment]
                      ELSE job_statuses[resp.job]

\* C22: a status create request on a job leaves the status ledger and the
\* status pointer of every experiment, its parent included, as they were;
\* a status create request on an experiment leaves the ledgers and the
\* status pointers of all jobs, its own included, as they were.
C22_LedgersAreIndependent ==
    [][(nreq' # nreq /\ IsStatusCreate(resp'))
       => IF resp'.op = "job_status_create"
          THEN /\ experiment_statuses' = experiment_statuses
               /\ experiment_status' = experiment_status
          ELSE /\ job_statuses' = job_statuses
               /\ job_status' = job_status]_vars

C22_Witness ==
    /\ resp.op = "job_status_create"
    /\ resp.code = HTTP_201_CREATED
    /\ jobs[resp.job].experiment = resp.experiment
    /\ job_last_status(resp.job) = FAILED
    /\ experiment_last_status(resp.experiment) = SUCCEEDED
    /\ Len(job_statuses[resp.job]) = 2

----------------------------------------------------------------------------
(* Claims about what an exchange gives away *)

\* What the caller of an exchange sees of its response: the status code and
\* the credential of the body
Visible(r) == <<r.code, r.token>>

\* C23: every exchange that hands out no credential is answered with the
\* same response, a 403 with no credential in it, whatever made the handler
\* refuse: any two refused exchanges look the same to their callers, whether
\* or not the experiment they name exists.
C23_DenialsLookTheSame ==
    (IsExchange(resp) /\ resp.code # HTTP_200_OK)
    => Visible(resp) = <<HTTP_403_FORBIDDEN, 0>>

----------------------------------------------------------------------------
(* Claims about requests under an unknown experiment or a foreign job *)

SubResourceOps ==
    {"experiment_status_create", "experiment_status_list", "job_status_create",
     "job_status_list", "metrics_create", "metrics_list", "jobs_create", "jobs_list"}

\* The request names an experiment the table does not hold, or a job that is
\* not a job of the experiment it names
Missing(r) ==
    \/ r.path[1] \notin DOMAIN experiments
    \/ /\ r.op \in {"job_status_create", "job_status_list"}
       /\ ~(r.path[2] \in DOMAIN jobs /\ jobs[r.path[2]].experiment = r.path[1])

\* The request is a create whose payload its serializer refuses; a list of
\* metrics is not handed to the serializer
Refused(r) ==
    \/ r.op \in {"experiment_status_create", "job_status_create"}
       /\ r.status \notin Statuses
    \/ r.op = "metrics_create" /\ ~r.body.many /\ r.body.records[1] \notin MetricRecords
    \/ r.op = "jobs_create" /\ r.body # "job"

\* The step writes no status, metric or job row, enqueues nothing and
\* answers with no record
NoTrace ==
    /\ UNCHANGED <<jobs, experiment_statuses, experiment_status, job_statuses,
                   job_status, experiment_metrics, queue>>
    /\ resp'.data = <<>>

\* C24: a request that lists or creates statuses, metrics or jobs under an
\* experiment id the table does not hold, or statuses of a job that is not a
\* job of the named experiment, is answered 404, writes no row, enqueues no
\* command and returns no list.
C24_MissingIsNotFound ==
    [][(nreq' # nreq /\ resp'.op \in SubResourceOps /\ Missing(resp'))
       => /\ resp'.code = HTTP_404_NOT_FOUND
          /\ NoTrace]_vars

\* C24, amended: such a request writes no row, enqueues no command and
\* returns no list; it is answered 404, except that a create whose payload
\* the serializer refuses is answered with a ValidationError, the payload
\* being validated before the experiment or the job is looked up.
C24_MissingIsNotFoundOrRefused ==
    [][(nreq' # nreq /\ resp'.op \in SubResourceOps /\ Missing(resp'))
       => /\ resp'.code = IF Refused(resp') THEN ValidationError
                          ELSE HTTP_404_NOT_FOUND
          /\ NoTrace]_vars

C24_Witness ==
    /\ resp.op = "job_status_create"
    /\ resp.code = HTTP_404_NOT_FOUND
    /\ resp.path = <<1, 2>>
    /\ resp.status = RUNNING
    /\ job_statuses[1] # <<>>
    /\ job_statuses[2] = <<>>
    /\ queue # <<>>

----------------------------------------------------------------------------
(* Claims about the event a clone request records *)

\* C25: a clone request records its triggered event only if it goes on to
\* create a derived experiment; a clone request refused with a
\* ValidationError leaves the event log as it was.
C25_TriggeredEventOnlyWithDerived ==
    [][(nreq' # nreq /\ IsClone(resp'))
       => /\ (events' # events) => Added # {}
          /\ (resp'.code = ValidationError) => events' = events]_vars

----------------------------------------------------------------------------
(* Claims about whose grant an exchange reads *)

\* C26: an exchange addressed to an experiment answers with a credential only
\* if a grant is stored for the experiment's owner and the experiment, and the
\* presented scope matches the latest such grant; the credential is the
\* owner's.
C26_CredentialOnlyThroughOwnGrant ==
    [][(nreq' # nreq /\ IsExchange(resp') /\ resp'.code = HTTP_200_OK)
       => LET X == resp'.experiment
              own == grants_of(Owner(X), X)
          IN /\ own # {}
             /\ SameMultiset(resp'.scope, ephemeral_tokens[Max(own)].scope)
             /\ resp'.actor = Owner(X)
             /\ \E t \in tokens' : t.user = Owner(X) /\ t.key = resp'.token]_vars

====
